---- MODULE Spec2Model ----
(***************************************************************************)
(* Model of parquet_chunker.py: chunk_and_upload_parquet reads a parquet   *)
(* file, derives a chunk count from the dataframe's in-memory footprint,   *)
(* and for each chunk writes a temporary file, uploads it and removes it.  *)
(*                                                                         *)
(* Strings are sequences of one-character strings, so that basename,       *)
(* splitext and the {:03d} format are computed character by character.     *)
(* A dataframe is the sequence of its rows; rows are row identifiers.      *)
(* Two invocations (Runs) share the working directory and the bucket.      *)
(***************************************************************************)
EXTENDS Integers, Sequences, FiniteSets

\* ---------------------------------------------------------------- bounds
MaxRows == 4
MaxSizeMB == 3
MaxRowsConc == 2
MaxSizeMBConc == 1

Runs == {1, 2}

\* ---------------------------------------------------------- string helpers
DigitChars == <<"0", "1", "2", "3", "4", "5", "6", "7", "8", "9">>

RECURSIVE Decimal(_)
\* str(n) for n >= 0, as Python's format of an int
Decimal(n) ==
    IF n < 10 THEN <<DigitChars[n + 1]>>
    ELSE Decimal(n \div 10) \o <<DigitChars[(n % 10) + 1]>>

RECURSIVE ZeroPad(_, _)
ZeroPad(s, width) == IF Len(s) >= width THEN s ELSE ZeroPad(<<"0">> \o s, width)

\* variant: no padding
Format03d_unpadded(n) == Decimal(n)



\* f"{n:03d}" for n >= 0: at least three digits, never truncated
Format03d(n) == ZeroPad(Decimal(n), 3)

\* 1-based position of the last occurrence of c in s, 0 when absent
\* (Python's s.rfind(c) + 1)
RFind(s, c) ==
    LET hits == {k \in 1..Len(s) : s[k] = c}
    IN  IF hits = {} THEN 0 ELSE CHOOSE k \in hits : \A j \in hits : j <= k

\* os.path.basename (posixpath): everything after the last "/"
basename(p) == SubSeq(p, RFind(p, "/") + 1, Len(p))

\* os.path.splitext(p)[0] (genericpath._splitext): cut at the last dot of the
\* last path component, unless only dots precede it in that component
splitext_root(p) ==
    LET sepIndex == RFind(p, "/")
        dotIndex == RFind(p, ".")
    IN  IF dotIndex > sepIndex
           /\ \E k \in (sepIndex + 1)..(dotIndex - 1) : p[k] # "."
        THEN SubSeq(p, 1, dotIndex - 1)
        ELSE p

\* ------------------------------------------------------------ input sets
InputFiles ==
    { <<"d", "/", "f", ".", "p">>,      \* d/f.p
      <<"f">>,                          \* no extension
      <<".", "h">>,                     \* leading dot: no extension
      <<"a", ".", "b", ".", "p">> }     \* a.b.p
Prefixes == { <<>>, <<"x", "/">> }
BucketNames == { "bkt" }
ChunkSizesMB == {1, 2}

MB == 1024 * 1024

\* memory footprints: 0, exact multiples of 1 MB and one byte above them
Footprints(maxMB) ==
    {0} \cup {k * MB : k \in 1..maxMB} \cup {k * MB + 1 : k \in 0..(maxMB - 1)}

\* A dataframe with R rows; a dataframe that has rows has a non-zero footprint
\* (its index alone occupies memory), one without rows may report 0.
Datasets(maxRows, maxMB) ==
    { d \in [rows : {[k \in 1..R |-> k] : R \in 0..maxRows},
             memory_usage : Footprints(maxMB)] :
        Len(d.rows) = 0 \/ d.memory_usage > 0 }

\* a credential argument: "" is a value Python treats as false (None or the
\* empty string), "set" a non-empty string
Credentials == {"", "set"}

Arguments(files, prefixes, sizes, creds) ==
    [input_file : files, bucket_name : BucketNames,
     chunk_size_mb : sizes, prefix : prefixes,
     aws_access_key_id : creds, aws_secret_access_key : creds]

\* ------------------------------------------------------------------ state
VARIABLES
    args,            \* per run: the call's arguments
    input_data,      \* per run: what the input file holds (rows, footprint)
    pc,              \* per run: position in chunk_and_upload_parquet
    error,           \* per run: the exception that ended the run, or "none"
    df,              \* per run: the loaded dataframe
    num_chunks,      \* per run
    rows_per_chunk,  \* per run
    base_filename,   \* per run
    i,               \* per run: loop index
    fs,              \* working directory: path -> [content, writer]
    s3,              \* bucket contents: <<bucket, key>> -> [content, writer, by]
    calls,           \* per run: the to_parquet / upload_file / remove calls made
    uploads,         \* per run: the upload_file calls that returned
    stdout,          \* per run: the progress lines printed
    s3_client        \* per run: how the S3 client was built, or "none"

vars == <<args, input_data, pc, error, df, num_chunks, rows_per_chunk,
          base_filename, i, fs, s3, calls, uploads, stdout, s3_client>>

None == -1

\* ------------------------------------------------------- the chunk plan
\* math.ceil(a / b) for a >= 0, b > 0
CeilDiv(a, b) == (a + b - 1) \div b

total_size_bytes(r) == input_data[r].memory_usage

chunk_size_bytes(r) == args[r].chunk_size_mb * 1024 * 1024

ComputeNumChunks(r) == CeilDiv(total_size_bytes(r), chunk_size_bytes(r))

ComputeRowsPerChunk(r, n) == Len(df[r]) \div n

start_idx(r, k) == k * rows_per_chunk[r]

\* variant: the last chunk ends like the others
end_idx_no_remainder(r, k) == (k + 1) * rows_per_chunk[r]

end_idx(r, k) ==
    IF k = num_chunks[r] - 1 THEN None ELSE (k + 1) * rows_per_chunk[r]

Min(a, b) == IF a <= b THEN a ELSE b

\* variant: the stop position is included
iloc_inclusive(d, start, stop) ==
    LET last == IF stop = None THEN Len(d) ELSE Min(stop + 1, Len(d))
    IN  IF start < last THEN SubSeq(d, start + 1, last) ELSE <<>>

\* d.iloc[start:stop] for start >= 0 and stop >= 0 or None: the rows with
\* 0-based position in [start, stop), clipped to the dataframe
iloc(d, start, stop) ==
    LET last == IF stop = None THEN Len(d) ELSE Min(stop, Len(d))
    IN  IF start < last THEN SubSeq(d, start + 1, last) ELSE <<>>

chunk_df(r, k) == iloc(df[r], start_idx(r, k), end_idx(r, k))

\* variant: a path of the run's own
chunk_filename_per_run(r, k) ==
    <<"t", "e", "m", "p", "_">> \o Decimal(r) \o <<"_", "c", "h", "u", "n", "k", "_">>
        \o Decimal(k) \o <<".", "p", "a", "r", "q", "u", "e", "t">>

\* f"temp_chunk_{k}.parquet"
chunk_filename(r, k) ==
    <<"t", "e", "m", "p", "_", "c", "h", "u", "n", "k", "_">> \o Decimal(k)
        \o <<".", "p", "a", "r", "q", "u", "e", "t">>

\* lines 38-42: explicit credentials only when both arguments are true
ClientKind(r) ==
    IF args[r].aws_access_key_id # "" /\ args[r].aws_secret_access_key # ""
    THEN "explicit" ELSE "ambient"

ComputeBaseFilename(r) == splitext_root(basename(args[r].input_file))

\* f"{prefix}{base_filename}_part_{k+1:03d}.parquet"
s3_key(r, k) ==
    args[r].prefix \o base_filename[r] \o <<"_", "p", "a", "r", "t", "_">>
        \o Format03d(k + 1) \o <<".", "p", "a", "r", "q", "u", "e", "t">>

\* variant: the 0-based index is printed
Notification_zero_based(r, k) ==
    [ordinal |-> k, num_chunks |-> num_chunks[r],
     bucket |-> args[r].bucket_name, key |-> s3_key(r, k)]

\* the line printed after chunk k
Notification(r, k) ==
    [ordinal |-> k + 1, num_chunks |-> num_chunks[r],
     bucket |-> args[r].bucket_name, key |-> s3_key(r, k)]

\* variant: the loop stops one short
LoopHead_one_short(n, k) == IF k < n - 1 THEN "serialize" ELSE "done"

\* range(n): the position after index k - 1
LoopHead(n, k) == IF k < n THEN "serialize" ELSE "done"

\* variant: the exception is swallowed and the loop goes on
Raise_swallowed(r, e) ==
    /\ pc' = [pc EXCEPT ![r] = "print"]
    /\ error' = [error EXCEPT ![r] = e]

\* an uncaught exception leaves the function
Raise(r, e) ==
    /\ pc' = [pc EXCEPT ![r] = "failed"]
    /\ error' = [error EXCEPT ![r] = e]

Call(r, op, ok) == [op |-> op, i |-> i[r], ok |-> ok]

\* ------------------------------------------------------------- file system
WriteFile(path, content, r) ==
    [p \in DOMAIN fs \cup {path} |->
        IF p = path THEN [content |-> content, writer |-> r] ELSE fs[p]]

\* variant: the file stays
RemoveFile_kept(path) == fs

RemoveFile(path) == [p \in DOMAIN fs \ {path} |-> fs[p]]

PutObject(bucket, key, obj) ==
    [o \in DOMAIN s3 \cup {<<bucket, key>>} |->
        IF o = <<bucket, key>> THEN obj ELSE s3[o]]

\* ------------------------------------------------------------------ Init
InitRun(active, a, d) ==
    /\ args = a
    /\ input_data = d
    /\ pc = [r \in Runs |-> IF r \in active THEN "load" ELSE "idle"]
    /\ error = [r \in Runs |-> "none"]
    /\ df = [r \in Runs |-> <<>>]
    /\ num_chunks = [r \in Runs |-> 0]
    /\ rows_per_chunk = [r \in Runs |-> 0]
    /\ base_filename = [r \in Runs |-> <<>>]
    /\ i = [r \in Runs |-> 0]
    /\ fs = <<>>
    /\ s3 = <<>>
    /\ calls = [r \in Runs |-> <<>>]
    /\ uploads = [r \in Runs |-> <<>>]
    /\ stdout = [r \in Runs |-> <<>>]
    /\ s3_client = [r \in Runs |-> "none"]

IdleArgs ==
    [input_file |-> <<"f">>, bucket_name |-> "bkt", chunk_size_mb |-> 1,
     prefix |-> <<>>, aws_access_key_id |-> "", aws_secret_access_key |-> ""]
IdleData == [rows |-> <<>>, memory_usage |-> 0]

\* one invocation in an empty working directory
Init ==
    \E a \in Arguments(InputFiles, Prefixes, ChunkSizesMB, Credentials),
       d \in Datasets(MaxRows, MaxSizeMB) :
        InitRun({1}, [r \in Runs |-> IF r = 1 THEN a ELSE IdleArgs],
                     [r \in Runs |-> IF r = 1 THEN d ELSE IdleData])

\* two invocations started in the same working directory
InitConc ==
    \E a \in [Runs -> Arguments({<<"f">>, <<"a", ".", "b", ".", "p">>}, {<<>>}, {1}, {""})],
       d \in [Runs -> Datasets(MaxRowsConc, MaxSizeMBConc)] :
        InitRun(Runs, a, d)

\* --------------------------------------------------------------- actions
\* line 27: df = pd.read_parquet(input_file)
Load(r) ==
    /\ pc[r] = "load"
    /\ \E outcome \in {"ok", "LoadError"} :
        IF outcome = "ok"
        THEN /\ df' = [df EXCEPT ![r] = input_data[r].rows]
             /\ pc' = [pc EXCEPT ![r] = "plan"]
             /\ error' = error
        ELSE /\ Raise(r, outcome)
             /\ df' = df
    /\ UNCHANGED <<args, input_data, num_chunks, rows_per_chunk, base_filename,
                   i, fs, s3, calls, uploads, stdout, s3_client>>

\* lines 30-48: the chunk plan, the S3 client, the base filename, entry into
\* the loop
Plan(r) ==
    /\ pc[r] = "plan"
    /\ LET n == ComputeNumChunks(r)
       IN  /\ num_chunks' = [num_chunks EXCEPT ![r] = n]
           /\ IF n = 0
              THEN /\ Raise(r, "ZeroDivisionError")
                   /\ UNCHANGED <<rows_per_chunk, base_filename, s3_client>>
              ELSE /\ rows_per_chunk' =
                        [rows_per_chunk EXCEPT ![r] = ComputeRowsPerChunk(r, n)]
                   /\ \E outcome \in {"ok", "ClientConstructionError"} :
                        IF outcome = "ok"
                        THEN /\ s3_client' = [s3_client EXCEPT ![r] = ClientKind(r)]
                             /\ base_filename' =
                                  [base_filename EXCEPT ![r] = ComputeBaseFilename(r)]
                             /\ pc' = [pc EXCEPT ![r] = LoopHead(n, 0)]
                             /\ error' = error
                        ELSE /\ Raise(r, outcome)
                             /\ UNCHANGED <<base_filename, s3_client>>
    /\ UNCHANGED <<args, input_data, df, i, fs, s3, calls, uploads, stdout>>

\* lines 49-57: slice the chunk and write it to its temporary file
Serialize(r) ==
    /\ pc[r] = "serialize"
    /\ \E outcome \in {"ok", "fail", "fail_partial"} :
        /\ calls' = [calls EXCEPT ![r] = Append(@, Call(r, "to_parquet", outcome = "ok"))]
        /\ IF outcome = "ok"
           THEN /\ fs' = WriteFile(chunk_filename(r, i[r]), chunk_df(r, i[r]), r)
                /\ pc' = [pc EXCEPT ![r] = "upload"]
                /\ error' = error
           ELSE /\ Raise(r, "SerializeError")
                /\ fs' = IF outcome = "fail_partial"
                         THEN WriteFile(chunk_filename(r, i[r]), <<>>, r)
                         ELSE fs
    /\ UNCHANGED <<args, input_data, df, num_chunks, rows_per_chunk,
                   base_filename, i, s3, uploads, stdout, s3_client>>

UploadOutcomes(path) ==
    IF path \in DOMAIN fs THEN {"ok", "UploadError"} ELSE {"FileNotFoundError"}

\* lines 60-61: s3_client.upload_file(chunk_filename, bucket_name, s3_key)
Upload(r) ==
    /\ pc[r] = "upload"
    /\ LET path == chunk_filename(r, i[r])
           key == s3_key(r, i[r])
       IN \E outcome \in UploadOutcomes(path) :
            /\ calls' = [calls EXCEPT ![r] = Append(@, Call(r, "upload_file", outcome = "ok"))]
            /\ IF outcome = "ok"
               THEN /\ s3' = PutObject(args[r].bucket_name, key,
                                [content |-> fs[path].content,
                                 writer |-> fs[path].writer, by |-> r])
                    /\ uploads' = [uploads EXCEPT ![r] = Append(@,
                                [ordinal |-> i[r] + 1, key |-> key,
                                 content |-> fs[path].content,
                                 writer |-> fs[path].writer])]
                    /\ pc' = [pc EXCEPT ![r] = "remove"]
                    /\ error' = error
               ELSE /\ Raise(r, outcome)
                    /\ UNCHANGED <<s3, uploads>>
    /\ UNCHANGED <<args, input_data, df, num_chunks, rows_per_chunk,
                   base_filename, i, fs, stdout, s3_client>>

RemoveOutcomes(path) ==
    IF path \in DOMAIN fs THEN {"ok", "RemoveError"} ELSE {"FileNotFoundError"}

\* line 64: os.remove(chunk_filename)
Remove(r) ==
    /\ pc[r] = "remove"
    /\ LET path == chunk_filename(r, i[r])
       IN \E outcome \in RemoveOutcomes(path) :
            /\ calls' = [calls EXCEPT ![r] = Append(@, Call(r, "remove", outcome = "ok"))]
            /\ IF outcome = "ok"
               THEN /\ fs' = RemoveFile(path)
                    /\ pc' = [pc EXCEPT ![r] = "print"]
                    /\ error' = error
               ELSE /\ Raise(r, outcome)
                    /\ fs' = fs
    /\ UNCHANGED <<args, input_data, df, num_chunks, rows_per_chunk,
                   base_filename, i, s3, uploads, stdout, s3_client>>

\* line 66 and the loop's next iteration
PrintProgress(r) ==
    /\ pc[r] = "print"
    /\ \E outcome \in {"ok", "BrokenPipeError"} :
        IF outcome = "ok"
        THEN /\ stdout' = [stdout EXCEPT ![r] = Append(@, Notification(r, i[r]))]
             /\ i' = [i EXCEPT ![r] = @ + 1]
             /\ pc' = [pc EXCEPT ![r] = LoopHead(num_chunks[r], i[r] + 1)]
             /\ error' = error
        ELSE /\ Raise(r, outcome)
             /\ UNCHANGED <<stdout, i>>
    /\ UNCHANGED <<args, input_data, df, num_chunks, rows_per_chunk,
                   base_filename, fs, s3, calls, uploads, s3_client>>

Next ==
    \E r \in Runs :
        \/ Load(r)
        \/ Plan(r)
        \/ Serialize(r)
        \/ Upload(r)
        \/ Remove(r)
        \/ PrintProgress(r)

Spec == Init /\ [][Next]_vars

SpecConc == InitConc /\ [][Next]_vars

\* ============================================================ properties
EnvErrors == {"LoadError", "ClientConstructionError", "SerializeError",
              "UploadError", "RemoveError", "FileNotFoundError",
              "BrokenPipeError"}

Terminal(r) == pc[r] \in {"done", "failed"}

\* the run got past line 35: it has a chunk plan
HasPlan(r) ==
    \/ pc[r] \in {"serialize", "upload", "remove", "print", "done"}
    \/ pc[r] = "failed" /\ error[r] \notin {"LoadError", "ZeroDivisionError"}

RowCount(r) == Len(df[r])

RECURSIVE ConcatChunks(_, _)
\* the row slices of chunks 0 .. k-1, one after the other
ConcatChunks(r, k) ==
    IF k = 0 THEN <<>> ELSE ConcatChunks(r, k - 1) \o chunk_df(r, k - 1)

RECURSIVE SumChunkRows(_, _)
SumChunkRows(r, k) ==
    IF k = 0 THEN 0 ELSE SumChunkRows(r, k - 1) + Len(chunk_df(r, k - 1))

RECURSIVE ConcatContents(_)
ConcatContents(us) ==
    IF us = <<>> THEN <<>> ELSE us[1].content \o ConcatContents(Tail(us))

\* C1: num_chunks is at least 1 for every dataset and positive budget; the
\* empty dataset with footprint 0 gets num_chunks = 1, exactly one upload of
\* a 0-row chunk, and ends without an error.
C1_NumChunksAtLeastOne ==
    \A r \in Runs :
        /\ (pc[r] \notin {"idle", "load", "plan"} /\ error[r] # "LoadError")
              => num_chunks[r] >= 1
        /\ (/\ Terminal(r)
            /\ input_data[r].rows = <<>>
            /\ input_data[r].memory_usage = 0
            /\ error[r] \notin EnvErrors)
              => /\ pc[r] = "done"
                 /\ num_chunks[r] = 1
                 /\ Len(uploads[r]) = 1
                 /\ uploads[r][1].content = <<>>

\* C2: when a run has ended, normally or on an upload failure, no temporary
\* chunk file it wrote is left in the working directory.
C2_TempFileDeleted ==
    \A r \in Runs :
        (pc[r] = "done" \/ (pc[r] = "failed" /\ error[r] = "UploadError"))
            => \A p \in DOMAIN fs : fs[p].writer # r

\* C3: with R rows, N chunks and P = R div N rows per chunk, chunks 0..N-2
\* have P rows each, the last has R - P*(N-1) >= P rows, the counts sum to R,
\* and every chunk uploaded has the row count of its ordinal.
C3_ChunkRowCounts ==
    \A r \in Runs : HasPlan(r) =>
        LET N == num_chunks[r]
            P == rows_per_chunk[r]
            R == RowCount(r)
        IN  /\ P * N <= R /\ R < (P + 1) * N
            /\ \A k \in 0..(N - 2) : Len(chunk_df(r, k)) = P
            /\ Len(chunk_df(r, N - 1)) = R - P * (N - 1)
            /\ Len(chunk_df(r, N - 1)) >= P
            /\ Len(chunk_df(r, N - 1)) >= 0
            /\ SumChunkRows(r, N) = R
            /\ \A j \in 1..Len(uploads[r]) :
                 Len(uploads[r][j].content) =
                    IF uploads[r][j].ordinal = N THEN R - P * (N - 1) ELSE P

\* more chunks than rows: every chunk but the last was uploaded empty
C3_Witness ==
    /\ pc[1] = "done"
    /\ num_chunks[1] >= 2
    /\ rows_per_chunk[1] = 0
    /\ RowCount(1) >= 1
    /\ Len(uploads[1][num_chunks[1]].content) = RowCount(1)
    /\ uploads[1][1].content = <<>>

\* C4: the chunks' row slices, concatenated in ascending ordinal order, are
\* the dataset's rows in their original order; what a completed run uploaded
\* is that same sequence, and the chunks uploaded so far are a prefix of it.
C4_ConcatIsDataset ==
    \A r \in Runs : HasPlan(r) =>
        /\ ConcatChunks(r, num_chunks[r]) = input_data[r].rows
        /\ ConcatContents(uploads[r]) =
              SubSeq(input_data[r].rows, 1, Len(ConcatContents(uploads[r])))
        /\ pc[r] = "done" => ConcatContents(uploads[r]) = input_data[r].rows

C4_Witness ==
    /\ pc[1] = "done"
    /\ num_chunks[1] >= 2
    /\ rows_per_chunk[1] >= 1
    /\ RowCount(1) > rows_per_chunk[1] * num_chunks[1]

\* C5: a run that completed has put one object per ordinal 1..num_chunks in
\* the bucket under that chunk's key, holding that chunk's rows, made its
\* uploads in ascending ordinal order, and left no temporary file behind.
C5_SuccessPostcondition ==
    \A r \in Runs : pc[r] = "done" =>
        /\ \A k \in 0..(num_chunks[r] - 1) :
              /\ <<args[r].bucket_name, s3_key(r, k)>> \in DOMAIN s3
              /\ s3[<<args[r].bucket_name, s3_key(r, k)>>].content = chunk_df(r, k)
        /\ Len(uploads[r]) = num_chunks[r]
        /\ \A j \in 1..Len(uploads[r]) : uploads[r][j].ordinal = j
        /\ Cardinality(DOMAIN s3) = num_chunks[r]
        /\ DOMAIN fs = {}

C5_Witness ==
    /\ pc[1] = "done"
    /\ num_chunks[1] = 3
    /\ Cardinality(DOMAIN s3) = 3
    /\ DOMAIN fs = {}

DigitValue(c) == CHOOSE d \in 0..9 : DigitChars[d + 1] = c

RECURSIVE ParseInt(_)
ParseInt(s) ==
    IF s = <<>> THEN 0
    ELSE 10 * ParseInt(SubSeq(s, 1, Len(s) - 1)) + DigitValue(s[Len(s)])

\* the text between "<prefix><base>_part_" and ".parquet" in a key
OrdinalField(r, key) ==
    SubSeq(key, Len(args[r].prefix) + Len(base_filename[r]) + 7, Len(key) - 8)

IsKeyOf(r, key, ordinal) ==
    LET head == args[r].prefix \o base_filename[r]
        field == OrdinalField(r, key)
    IN  /\ SubSeq(key, 1, Len(head)) = head
        /\ SubSeq(key, Len(head) + 1, Len(head) + 6) = <<"_", "p", "a", "r", "t", "_">>
        /\ SubSeq(key, Len(key) - 7, Len(key)) = <<".", "p", "a", "r", "q", "u", "e", "t">>
        /\ Len(field) >= 3
        /\ \A j \in 1..Len(field) : field[j] \in {DigitChars[d] : d \in 1..10}
        /\ Len(field) > 3 => field[1] # "0"
        /\ ParseInt(field) = ordinal

\* C6: the key of loop index k is prefix + base_filename + "_part_" + (k+1
\* zero-padded to at least 3 digits) + ".parquet"; the keys a run used carry
\* the ordinals 1, 2, ... in order without gaps, and are pairwise distinct.
C6_KeyFormat ==
    /\ Format03d(7) = <<"0", "0", "7">>
    /\ Format03d(12) = <<"0", "1", "2">>
    /\ Format03d(999) = <<"9", "9", "9">>
    /\ Format03d(1000) = <<"1", "0", "0", "0">>
    /\ \A r \in Runs : HasPlan(r) =>
        /\ \A k \in 0..(num_chunks[r] - 1) : IsKeyOf(r, s3_key(r, k), k + 1)
        /\ \A j \in 1..Len(uploads[r]) :
              /\ uploads[r][j].ordinal = j
              /\ IsKeyOf(r, uploads[r][j].key, j)
        /\ \A j1, j2 \in 1..Len(uploads[r]) :
              uploads[r][j1].key = uploads[r][j2].key => j1 = j2
        /\ Len(uploads[r]) <= num_chunks[r]

C6_Witness ==
    /\ pc[1] = "done"
    /\ num_chunks[1] = 3
    /\ args[1].prefix = <<"x", "/">>
    /\ args[1].input_file = <<"d", "/", "f", ".", "p">>
    /\ uploads[1][3].key =
         <<"x", "/", "f", "_", "p", "a", "r", "t", "_", "0", "0", "3",
           ".", "p", "a", "r", "q", "u", "e", "t">>

CallsOf(r, op) == {j \in 1..Len(calls[r]) : calls[r][j].op = op}

\* the call of op for loop index k was made and returned
Succeeded(r, op, k) ==
    \E j \in CallsOf(r, op) : calls[r][j].i = k /\ calls[r][j].ok

C7_AbortState ==
    \A r \in Runs :
        /\ \A j \in 1..(Len(calls[r]) - 1) : calls[r][j].ok
        /\ \A j1, j2 \in 1..Len(calls[r]) :
              j1 < j2 => /\ calls[r][j1].i <= calls[r][j2].i
                         /\ ~(/\ calls[r][j1].op = calls[r][j2].op
                              /\ calls[r][j1].i = calls[r][j2].i)
        /\ (pc[r] = "failed" /\ error[r] \in {"SerializeError", "UploadError"})
              => /\ ~calls[r][Len(calls[r])].ok
                 /\ calls[r][Len(calls[r])].i = i[r]
                 /\ \A j \in 1..Len(calls[r]) : calls[r][j].i <= i[r]
                 /\ Len(uploads[r]) = i[r]
                 /\ \A j \in 1..i[r] :
                       /\ uploads[r][j].ordinal = j
                       /\ <<args[r].bucket_name, uploads[r][j].key>> \in DOMAIN s3
                       /\ s3[<<args[r].bucket_name, uploads[r][j].key>>].content
                             = uploads[r][j].content

C7_AbortStep ==
    /\ \A o \in DOMAIN s3 : o \in DOMAIN s3' /\ s3'[o] = s3[o]
    /\ \A r \in Runs : pc[r] = "failed" =>
          /\ pc'[r] = "failed"
          /\ calls'[r] = calls[r]
          /\ uploads'[r] = uploads[r]
          /\ stdout'[r] = stdout[r]

\* C7: when the serialize or upload step of a chunk fails the run ends there:
\* the failed call is the last call the run makes, no call is repeated, no
\* later chunk is written or uploaded, and the chunks uploaded before it
\* stay in the bucket unchanged.
C7_AbortOnFailure == []C7_AbortState /\ [][C7_AbortStep]_vars

\* the upload of chunk 2 of 3 failed; chunk 1 is in the bucket
C7_Witness ==
    /\ pc[1] = "failed"
    /\ error[1] = "UploadError"
    /\ num_chunks[1] = 3
    /\ i[1] = 1
    /\ Len(uploads[1]) = 1
    /\ <<args[1].bucket_name, uploads[1][1].key>> \in DOMAIN s3

Ascending(ns) == \A j1, j2 \in 1..Len(ns) : j1 < j2 => ns[j1].ordinal < ns[j2].ordinal

\* C8 as stated: once a run has ended, the chunks notified are exactly the
\* chunks whose upload succeeded, in ascending ordinal order.
C8_NotifyEveryUpload ==
    \A r \in Runs : Terminal(r) =>
        /\ {stdout[r][j].ordinal : j \in 1..Len(stdout[r])}
              = {uploads[r][j].ordinal : j \in 1..Len(uploads[r])}
        /\ Ascending(stdout[r])

\* the print of the line of loop index k raised
PrintFailed(r, k) ==
    pc[r] = "failed" /\ error[r] = "BrokenPipeError" /\ i[r] = k

\* C8 amended: the notification of a chunk is printed after its upload and
\* the removal of its temporary file both succeeded. The lines printed are
\* those of ordinals 1, 2, ... in order, each carrying the chunk's ordinal,
\* num_chunks, bucket and the key it was uploaded under; no line is printed
\* for a chunk that was not uploaded; at most the chunk uploaded last lacks
\* its line; once the run has ended the chunks notified are exactly those
\* whose upload and removal both succeeded and whose print did not raise, and
\* a run that completed notified every chunk.
C8_NotifyAfterUploadAndRemove ==
    \A r \in Runs :
        /\ Ascending(stdout[r])
        /\ Len(stdout[r]) <= Len(uploads[r])
        /\ Len(uploads[r]) <= Len(stdout[r]) + 1
        /\ \A j \in 1..Len(stdout[r]) :
              /\ stdout[r][j].ordinal = j
              /\ stdout[r][j].ordinal = uploads[r][j].ordinal
              /\ stdout[r][j].key = uploads[r][j].key
              /\ stdout[r][j].num_chunks = num_chunks[r]
              /\ stdout[r][j].bucket = args[r].bucket_name
        /\ Terminal(r) =>
              \A k \in 0..(num_chunks[r] - 1) :
                  (k + 1 \in {stdout[r][j].ordinal : j \in 1..Len(stdout[r])})
                     <=> (/\ Succeeded(r, "upload_file", k)
                          /\ Succeeded(r, "remove", k)
                          /\ ~PrintFailed(r, k))
        /\ pc[r] = "done" => Len(stdout[r]) = num_chunks[r]

\* chunk 2 was uploaded, its temporary file could not be removed, and only
\* chunk 1 was notified
C8_Witness ==
    /\ pc[1] = "failed"
    /\ error[1] = "RemoveError"
    /\ Len(uploads[1]) = 2
    /\ Len(stdout[1]) = 1

CallOrder == <<"to_parquet", "upload_file", "remove">>

\* C9: a run handles chunk 0, 1, 2, ... in turn, each as to_parquet, then
\* upload_file, then remove; no temporary file exists when a chunk is about
\* to be serialized, the only temporary file that can exist is the current
\* chunk's, and so at most one exists at any moment.
C9_OneChunkAtATime ==
    \A r \in Runs : pc[r] # "idle" =>
        /\ Cardinality(DOMAIN fs) <= 1
        /\ pc[r] = "serialize" => DOMAIN fs = {}
        /\ \A p \in DOMAIN fs : p = chunk_filename(r, i[r]) /\ fs[p].writer = r
        /\ \A j \in 1..Len(calls[r]) :
              /\ calls[r][j].i = (j - 1) \div 3
              /\ calls[r][j].op = CallOrder[((j - 1) % 3) + 1]

\* the second chunk's file is the only one: the first was removed before it
\* was written
C9_Witness ==
    /\ pc[1] = "upload"
    /\ i[1] = 1
    /\ DOMAIN fs = {chunk_filename(1, 1)}
    /\ Succeeded(1, "remove", 0)

\* C10: the temporary path depends on the loop index only, so two runs in the
\* same directory that are at the same index hold the same path; a run
\* uploads another run's content only where that run wrote the same index's
\* file, and misses its file only where another run removed the same index's.
C10_SharedTempPath ==
    /\ \A r1, r2 \in Runs :
          (/\ pc[r1] \in {"upload", "remove"}
           /\ pc[r2] \in {"upload", "remove"}
           /\ i[r1] = i[r2])
             => chunk_filename(r1, i[r1]) = chunk_filename(r2, i[r2])
    /\ \A r \in Runs : \A j \in 1..Len(uploads[r]) :
          uploads[r][j].writer # r =>
             \E c \in CallsOf(uploads[r][j].writer, "to_parquet") :
                 calls[uploads[r][j].writer][c].i = j - 1
    /\ \A r \in Runs : error[r] = "FileNotFoundError" =>
          \E q \in Runs \ {r} : Succeeded(q, "remove", i[r])

\* a run uploaded, under its own key, a temporary file the other run wrote,
\* with rows that are not its chunk's
C10_Collision ==
    \E r \in Runs : \E j \in 1..Len(uploads[r]) :
        /\ uploads[r][j].writer # r
        /\ uploads[r][j].content # chunk_df(r, j - 1)
        /\ pc[r] = "done"

====
